---- MODULE Spec2Model ----
(***************************************************************************)
(* CAAI flight-hours classification and aggregation                        *)
(* (caai_rules.py, caai_form_filler.py, caai_columns.py, caai_analyzer.py).*)
(*                                                                         *)
(* Units.  Hours are integers in thousandths of an hour (1.0 h = 1000), so *)
(* that sic / 2 is exact and round(x, 1), round(x, 2) are integer roundings.*)
(* Distances are integers in tenths of a nautical mile (27.1 NM = 271).    *)
(* Text is a sequence of one-character strings, so that upper(), lower(),  *)
(* strip(), split() and the substring test act on characters.              *)
(***************************************************************************)
EXTENDS Integers, Sequences, FiniteSets, TLC

VARIABLES
    pc,          \* position of fill_caai_form: "categorize" (the loop) or "done"
    flights,     \* the rows of the logbook consumed so far, in source order
    type_stats,  \* categorize_flights: per normalized type accumulator (defaultdict)
    type_order,  \* insertion order of the keys of type_stats
    grand,       \* categorize_flights: grand totals
    report,      \* fill_caai_form: the verification block and the returned total
    sheet,       \* add_caai_columns: the cells written to columns 49-56, row by row
    column_stats,\* add_caai_columns: the tracking counters
    type_totals, \* analyze_caai: per raw type totals (defaultdict)
    grand_totals,\* analyze_caai: grand totals
    caai_total,  \* analyze_caai: the half-credit total it returns
    rule_in,     \* the (aircraft_type, registration) pair handed to caai_rules
    rule_out,    \* what the caai_rules functions returned for rule_in
    previous,    \* what an earlier call of categorize_flights on the same list returned
    cursor       \* rows of the list consumed by the second call of categorize_flights

vars == <<pc, flights, type_stats, type_order, grand, report, sheet, column_stats,
          type_totals, grand_totals, caai_total, rule_in, rule_out, previous, cursor>>

(***************************************************************************)
(* Text                                                                    *)
(***************************************************************************)
Whitespace == {" ", "\t", "\n"}

LowerLetters == <<"a", "b", "c", "d", "e", "f", "g", "h", "i", "j", "k", "l", "m",
                  "n", "o", "p", "q", "r", "s", "t", "u", "v", "w", "x", "y", "z">>

UpperLetters == <<"A", "B", "C", "D", "E", "F", "G", "H", "I", "J", "K", "L", "M",
                  "N", "O", "P", "Q", "R", "S", "T", "U", "V", "W", "X", "Y", "Z">>

\* letter -> its upper-case form, and letter -> its lower-case form
ToUpper == [c \in {LowerLetters[i] : i \in 1..26} |->
               UpperLetters[CHOOSE i \in 1..26 : LowerLetters[i] = c]]

ToLower == [c \in {UpperLetters[i] : i \in 1..26} |->
               LowerLetters[CHOOSE i \in 1..26 : UpperLetters[i] = c]]

UpperChar(c) == IF c \in DOMAIN ToUpper THEN ToUpper[c] ELSE c

LowerChar(c) == IF c \in DOMAIN ToLower THEN ToLower[c] ELSE c

\* str.upper()
Upper(s) == [i \in 1..Len(s) |-> UpperChar(s[i])]

\* str.lower()
Lower(s) == [i \in 1..Len(s) |-> LowerChar(s[i])]

\* sub in s
Contains(s, sub) ==
    \E i \in 1..(Len(s) - Len(sub) + 1) : SubSeq(s, i, i + Len(sub) - 1) = sub

\* str.strip()
Strip(s) ==
    LET idx == {i \in 1..Len(s) : s[i] \notin Whitespace}
    IN  IF idx = {} THEN <<>>
        ELSE LET lo == CHOOSE i \in idx : \A j \in idx : i <= j
                 hi == CHOOSE i \in idx : \A j \in idx : j <= i
             IN  SubSeq(s, lo, hi)

\* str.split()[0] when split() is not empty, <<>> when it is
FirstToken(s) ==
    LET t == Strip(s)
        brk == {i \in 1..Len(t) : t[i] \in Whitespace}
    IN  IF brk = {} THEN t
        ELSE SubSeq(t, 1, (CHOOSE i \in brk : \A j \in brk : i <= j) - 1)

(***************************************************************************)
(* caai_rules.py                                                           *)
(***************************************************************************)
A319 == <<"A","3","1","9">>
A320 == <<"A","3","2","0">>
H25B == <<"H","2","5","B">>
PA44 == <<"P","A","4","4">>
BE76 == <<"B","E","7","6">>
C172 == <<"C","1","7","2">>
PA28 == <<"P","A","2","8">>
C172R == <<"C","1","7","2","R">>
C172K == <<"C","1","7","2","K">>
P28A161 == <<"P","2","8","A","-","1","6","1">>
P28A181 == <<"P","2","8","A","-","1","8","1">>

SIM == <<"S","I","M">>
FTD == <<"F","T","D">>
FFS == <<"F","F","S">>
FRASCA == <<"F","R","A","S","C","A">>
FLIGHT_SAFETY == <<"F","L","I","G","H","T"," ","S","A","F","E","T","Y">>
CAE == <<"C","A","E">>
ATP == <<"A","T","P">>

MULTI_ENGINE_TYPES == {A319, A320, H25B, PA44, BE76}

COMPLEX_TYPES == {PA44, BE76}

\* TYPE_NORMALIZATION.get(atype, atype)
TYPE_NORMALIZATION(atype) ==
    CASE atype = C172R -> C172
      [] atype = C172K -> C172
      [] atype = P28A161 -> PA28
      [] atype = P28A181 -> PA28
      [] OTHER -> atype

is_simulator(aircraft_type, registration) ==
    LET atype == Upper(aircraft_type)
        reg == Upper(registration)
        parts0 == FirstToken(reg)
    IN  \/ Contains(atype, SIM)
        \/ Contains(atype, FTD)
        \/ Contains(atype, FFS)
        \/ Contains(reg, FRASCA)
        \/ Contains(reg, FLIGHT_SAFETY)
        \/ Contains(reg, CAE)
        \/ (parts0 # <<>> /\ parts0 = ATP)

\* A slip: the piston markers tested ahead of the jet/turboprop markers.
get_caai_category_piston_first(aircraft_type) ==
    LET atype == Upper(aircraft_type)
    IN  IF Contains(atype, PA44) \/ Contains(atype, BE76) THEN "E"
        ELSE IF Contains(atype, A319) \/ Contains(atype, A320) THEN "F"
        ELSE IF Contains(atype, H25B) THEN "F"
        ELSE "C"

get_caai_category(aircraft_type) ==
    LET atype == Upper(aircraft_type)
    IN  IF Contains(atype, A319) \/ Contains(atype, A320) THEN "F"
        ELSE IF Contains(atype, H25B) THEN "F"
        ELSE IF Contains(atype, PA44) \/ Contains(atype, BE76) THEN "E"
        ELSE "C"

is_single_engine(aircraft_type) ==
    LET atype == Upper(aircraft_type)
    IN  atype \notin MULTI_ENGINE_TYPES /\ ~Contains(atype, SIM)

normalize_type(aircraft_type) ==
    TYPE_NORMALIZATION(Strip(Upper(aircraft_type)))

is_complex_aircraft(aircraft_type) ==
    normalize_type(aircraft_type) \in COMPLEX_TYPES

(***************************************************************************)
(* Flight records (read_logbook) and the bounded logbooks                  *)
(***************************************************************************)
MaxFlights == 2

\* f['distance'] > 27, in nautical miles
XC_DISTANCE_NM == 27

\* 'OK' if diff < 0.5 else 'INVESTIGATE', in thousandths of an hour
SUM_CHECK_EPSILON == 500

NoText == <<>>
N12345 == <<"N","1","2","3","4","5">>
FRASCA_142 == <<"F","R","A","S","C","A"," ","1","4","2">>
A320_FFS == <<"A","3","2","0"," ","F","F","S">>
CFI == <<"D","a","n">>
SafetyPilotRemark == <<"S","a","f","e","t","y"," ","P","i","l","o","t"," ","I","F","R">>
safety_pilot == <<"s","a","f","e","t","y"," ","p","i","l","o","t">>

\* A plain day flight of 1.5 h: every optional field empty or zero.
PlainFlight ==
    [aircraft_type |-> C172, reg |-> N12345, total |-> 1500, pic |-> 0, sic |-> 0,
     night |-> 0, xc |-> 0, actual_inst |-> 0, sim_inst |-> 0, dual_recv |-> 0,
     dual_given |-> 0, solo |-> 0, day_ldg |-> 1, night_ldg |-> 0,
     instructor |-> NoText, remarks |-> NoText, distance |-> 0]

\* Rows that cross every field the role chain reads (pic_time is never read).
RoleRows ==
    { [PlainFlight EXCEPT !.aircraft_type = t, !.remarks = r,
                          !.sic = s, !.solo = o, !.pic = 1500 - s] :
        t \in {C172, PA44}, r \in {NoText, SafetyPilotRemark},
        s \in {0, 700}, o \in {0, 1400} }
    \cup
    { [PlainFlight EXCEPT !.aircraft_type = t, !.instructor = CFI, !.remarks = r,
                          !.sic = s, !.pic = 1500 - s] :
        t \in {C172, PA44}, r \in {NoText, SafetyPilotRemark}, s \in {0, 700} }

\* Instruction known only from dual received time, no instructor name.
DualRows ==
    { [PlainFlight EXCEPT !.aircraft_type = t, !.dual_recv = 1200, !.remarks = r,
                          !.sic = 700, !.solo = 1400] :
        t \in {C172, PA44}, r \in {NoText, SafetyPilotRemark} }

StudentFlight == [PlainFlight EXCEPT !.instructor = CFI, !.dual_recv = 1200]

SicFlight == [PlainFlight EXCEPT !.aircraft_type = PA44, !.sic = 700]

SoloFlight == [PlainFlight EXCEPT !.solo = 1400, !.pic = 1500]

SafetyFlight == [PlainFlight EXCEPT !.remarks = SafetyPilotRemark]

\* Rows that cross the day/night split with the distance either side of 27 NM;
\* night = 2000 is a row whose night time exceeds its total time.
TimeRows ==
    { [PlainFlight EXCEPT !.night = n, !.distance = d,
                          !.night_ldg = IF n > 0 THEN 1 ELSE 0] :
        n \in {0, 500, 2000}, d \in {270, 271} }
    \cup
    { [StudentFlight EXCEPT !.night = n, !.distance = 271,
                            !.night_ldg = IF n > 0 THEN 1 ELSE 0] :
        n \in {0, 500, 2000} }
    \cup
    { [PlainFlight EXCEPT !.xc = 1100],
      [PlainFlight EXCEPT !.total = 1505, !.night = 500],
      [StudentFlight EXCEPT !.xc = 1100],
      [SafetyFlight EXCEPT !.xc = 1100, !.night = 500, !.total = 1800],
      [SicFlight EXCEPT !.night = 500, !.distance = 271],
      [SoloFlight EXCEPT !.night = 500, !.distance = 271] }

\* Rows with instrument time.
InstrumentRows ==
    { [PlainFlight EXCEPT !.actual_inst = 300],
      [StudentFlight EXCEPT !.actual_inst = 300, !.sim_inst = 200],
      [StudentFlight EXCEPT !.sim_inst = 200],
      [SafetyFlight EXCEPT !.sim_inst = 200],
      [SicFlight EXCEPT !.actual_inst = 300] }

\* Simulator sessions, blank separator rows, and type codes as sources spell them.
DeviceRows ==
    { [PlainFlight EXCEPT !.aircraft_type = A320_FFS, !.total = 2000, !.night = 500,
                          !.distance = 271, !.night_ldg = 1],
      [StudentFlight EXCEPT !.reg = FRASCA_142, !.total = 1000, !.sim_inst = 1000],
      [PlainFlight EXCEPT !.aircraft_type = NoText, !.total = 0, !.day_ldg = 0],
      [StudentFlight EXCEPT !.aircraft_type = NoText],
      [SicFlight EXCEPT !.aircraft_type = Lower(PA44)],
      [PlainFlight EXCEPT !.aircraft_type = C172R] }

\* A safety-pilot flight on a twin with neither PIC nor SIC time logged.
SafetyTwinRows == { [SafetyFlight EXCEPT !.aircraft_type = PA44] }

Flights ==
    RoleRows \cup DualRows \cup TimeRows \cup InstrumentRows \cup DeviceRows
        \cup SafetyTwinRows

(***************************************************************************)
(* caai_form_filler.py: categorize_flights                                 *)
(***************************************************************************)
\* the defaultdict factory of type_stats
NewTypeStats ==
    [caai_col |-> "C", is_sim |-> FALSE,
     total |-> 0, form_total |-> 0,
     day_pic |-> 0, day_pic_xc |-> 0, day_sic |-> 0, day_student |-> 0,
     night_pic |-> 0, night_pic_xc |-> 0, night_sic |-> 0, night_student |-> 0,
     inst_actual |-> 0, inst_sim_air |-> 0, inst_sim_device |-> 0,
     dual_recv |-> 0, dual_inst |-> 0, night_time |-> 0, solo |-> 0,
     night_ldg |-> 0, complex_time |-> 0, safety_pilot |-> 0]

NewGrand ==
    [pic |-> 0, pic_xc |-> 0, sic |-> 0, student |-> 0,
     night_pic |-> 0, night_pic_xc |-> 0, night_sic |-> 0, night_student |-> 0,
     actual_inst |-> 0, sim_inst_air |-> 0, sim_device |-> 0,
     total |-> 0, form_total |-> 0,
     night |-> 0, dual |-> 0, dual_inst |-> 0, solo |-> 0, solo_xc |-> 0,
     night_ldg |-> 0, xc |-> 0, xc_all_roles |-> 0,
     complex |-> 0, safety_pilot_se |-> 0, me_time |-> 0]

\* r[k] += upd[k] for every key k of upd
Bump(r, upd) ==
    [k \in DOMAIN r |-> IF k \in DOMAIN upd THEN r[k] + upd[k] ELSE r[k]]

\* type_stats[k]: the entry, made by the factory when k is a new key
Lookup(stats, k) == IF k \in DOMAIN stats THEN stats[k] ELSE NewTypeStats

\* type_stats[k] = ts
Store(stats, k, ts) ==
    [x \in (DOMAIN stats) \cup {k} |-> IF x = k THEN ts ELSE stats[x]]

day_time(f) == f.total - f.night

night_time(f) == f.night

has_instructor(f) == f.instructor # NoText \/ f.dual_recv > 0

\* A slip: the marker looked for without lower-casing the remarks.
is_safety_case_sensitive(f) == Contains(f.remarks, safety_pilot)

is_safety(f) == Contains(Lower(f.remarks), safety_pilot)

is_sic_field(f) == f.sic > 0 /\ ~has_instructor(f)

is_solo_flight(f) == f.solo > 0

\* A slip: the distance threshold taken as inclusive.
is_xc_inclusive(f) == f.xc > 0 \/ f.distance >= XC_DISTANCE_NM * 10

is_xc(f) == f.xc > 0 \/ f.distance > XC_DISTANCE_NM * 10

\* A slip: the safety-pilot test moved ahead of the instructor test.
RoleBranchSafetyFirst(f) ==
    IF is_safety(f) /\ is_single_engine(f.aircraft_type) THEN "safety"
    ELSE IF has_instructor(f) THEN "student"
    ELSE IF is_sic_field(f) /\ ~is_single_engine(f.aircraft_type) THEN "sic"
    ELSE IF is_sic_field(f) /\ is_single_engine(f.aircraft_type) THEN "pic_sic_field"
    ELSE IF is_solo_flight(f) THEN "pic_solo"
    ELSE "pic"

\* A slip: the single-engine test left out of the SIC branch.
RoleBranchSicAnyEngine(f) ==
    IF has_instructor(f) THEN "student"
    ELSE IF is_safety(f) /\ is_single_engine(f.aircraft_type) THEN "safety"
    ELSE IF is_sic_field(f) THEN "sic"
    ELSE IF is_solo_flight(f) THEN "pic_solo"
    ELSE "pic"

\* A slip: the solo test ahead of the SIC test, the order of analyze_caai.
RoleBranchSoloFirst(f) ==
    IF has_instructor(f) THEN "student"
    ELSE IF is_safety(f) /\ is_single_engine(f.aircraft_type) THEN "safety"
    ELSE IF is_solo_flight(f) THEN "pic_solo"
    ELSE IF is_sic_field(f) /\ ~is_single_engine(f.aircraft_type) THEN "sic"
    ELSE IF is_sic_field(f) /\ is_single_engine(f.aircraft_type) THEN "pic_sic_field"
    ELSE "pic"

\* The branch of the if/elif chain of ROLE CLASSIFICATION that a row takes.
RoleBranch(f) ==
    IF has_instructor(f) THEN "student"
    ELSE IF is_safety(f) /\ is_single_engine(f.aircraft_type) THEN "safety"
    ELSE IF is_sic_field(f) /\ ~is_single_engine(f.aircraft_type) THEN "sic"
    ELSE IF is_sic_field(f) /\ is_single_engine(f.aircraft_type) THEN "pic_sic_field"
    ELSE IF is_solo_flight(f) THEN "pic_solo"
    ELSE "pic"

\* The simulator branch: only the device time of the keyed entry and of grand.
SimTypeStats(ts, f) ==
    [Bump(ts, "inst_sim_device" :> f.total) EXCEPT !.is_sim = TRUE]

\* A slip: a simulator session also counted as flight time.
SimGrandAsFlightTime(g, f) ==
    Bump(g, "sim_device" :> f.total @@ "total" :> f.total @@ "night" :> night_time(f))

SimGrand(g, f) == Bump(g, "sim_device" :> f.total)

\* What every aircraft row adds before the role chain.
CommonTypeStats(ts, f) ==
    LET t1 == [ts EXCEPT !.caai_col = get_caai_category(f.aircraft_type)]
        t2 == Bump(t1, "total" :> f.total @@ "inst_actual" :> f.actual_inst
                       @@ "inst_sim_air" :> f.sim_inst @@ "night_time" :> night_time(f)
                       @@ "night_ldg" :> f.night_ldg)
    IN  IF normalize_type(f.aircraft_type) \in {PA44, BE76}
        THEN Bump(t2, "complex_time" :> f.total)
        ELSE t2

\* A slip: simulated instrument time left out of what every row adds.
CommonGrandNoSimulatedInst(g, f) ==
    LET g1 == Bump(g, "actual_inst" :> f.actual_inst
                      @@ "total" :> f.total @@ "night" :> night_time(f)
                      @@ "night_ldg" :> f.night_ldg)
        g2 == IF is_xc(f) THEN Bump(g1, "xc_all_roles" :> f.total) ELSE g1
        g3 == IF ~is_single_engine(f.aircraft_type)
              THEN Bump(g2, "me_time" :> f.total) ELSE g2
    IN  IF normalize_type(f.aircraft_type) \in {PA44, BE76}
        THEN Bump(g3, "complex" :> f.total)
        ELSE g3

CommonGrand(g, f) ==
    LET g1 == Bump(g, "actual_inst" :> f.actual_inst @@ "sim_inst_air" :> f.sim_inst
                      @@ "total" :> f.total @@ "night" :> night_time(f)
                      @@ "night_ldg" :> f.night_ldg)
        g2 == IF is_xc(f) THEN Bump(g1, "xc_all_roles" :> f.total) ELSE g1
        g3 == IF ~is_single_engine(f.aircraft_type)
              THEN Bump(g2, "me_time" :> f.total) ELSE g2
    IN  IF normalize_type(f.aircraft_type) \in {PA44, BE76}
        THEN Bump(g3, "complex" :> f.total)
        ELSE g3

\* if has_instructor:
StudentTypeStats(ts, f) ==
    LET t1 == Bump(ts, "day_student" :> day_time(f) @@ "night_student" :> night_time(f)
                       @@ "form_total" :> f.total @@ "dual_recv" :> f.total)
    IN  IF f.actual_inst > 0 \/ f.sim_inst > 0
        THEN Bump(t1, "dual_inst" :> f.actual_inst + f.sim_inst)
        ELSE t1

StudentGrand(g, f) ==
    LET g1 == Bump(g, "student" :> f.total @@ "dual" :> f.total @@ "form_total" :> f.total)
        g2 == IF night_time(f) > 0 THEN Bump(g1, "night_student" :> night_time(f)) ELSE g1
    IN  IF f.actual_inst > 0 \/ f.sim_inst > 0
        THEN Bump(g2, "dual_inst" :> f.actual_inst + f.sim_inst)
        ELSE g2

\* elif is_safety and single_engine:
SafetyTypeStats(ts, f) == Bump(ts, "safety_pilot" :> f.total)

\* A slip: safety-pilot time also counted in the form total.
SafetyGrandInFormTotal(g, f) ==
    Bump(g, "safety_pilot_se" :> f.total @@ "form_total" :> f.total)

SafetyGrand(g, f) == Bump(g, "safety_pilot_se" :> f.total)

\* A slip: the SIC row adding its SIC-column time to the type's form total.
SicTypeStatsSicColumn(ts, f) ==
    Bump(ts, "day_sic" :> day_time(f) @@ "night_sic" :> night_time(f)
             @@ "form_total" :> f.sic)

\* elif is_sic_field and not single_engine:
SicTypeStats(ts, f) ==
    Bump(ts, "day_sic" :> day_time(f) @@ "night_sic" :> night_time(f)
             @@ "form_total" :> f.total)

\* A slip: the SIC row entering the form total at half credit.
SicGrandHalfInFormTotal(g, f) ==
    Bump(g, "sic" :> f.total @@ "form_total" :> f.total \div 2
            @@ "night_sic" :> night_time(f))

SicGrand(g, f) ==
    Bump(g, "sic" :> f.total @@ "form_total" :> f.total @@ "night_sic" :> night_time(f))

\* The PIC buckets of a type, written alike by the three PIC branches.
PicTypeStats(ts, f) ==
    LET t1 == Bump(ts, "day_pic" :> day_time(f) @@ "night_pic" :> night_time(f)
                       @@ "form_total" :> f.total)
    IN  IF is_xc(f)
        THEN Bump(t1, "day_pic_xc" :> day_time(f) @@ "night_pic_xc" :> night_time(f))
        ELSE t1

\* A slip: instrument time of a PIC row also counted as dual instrument.
PicGrandWithDualInst(g, f) ==
    LET g1 == Bump(g, "pic" :> f.total @@ "form_total" :> f.total
                      @@ "dual_inst" :> f.actual_inst + f.sim_inst)
        g2 == IF is_xc(f) THEN Bump(g1, "pic_xc" :> f.total @@ "xc" :> f.total) ELSE g1
        g3 == IF night_time(f) > 0 THEN Bump(g2, "night_pic" :> night_time(f)) ELSE g2
    IN  IF night_time(f) > 0 /\ is_xc(f)
        THEN Bump(g3, "night_pic_xc" :> night_time(f))
        ELSE g3

\* elif is_sic_field and single_engine:   and   else:
PicGrand(g, f) ==
    LET g1 == Bump(g, "pic" :> f.total @@ "form_total" :> f.total)
        g2 == IF is_xc(f) THEN Bump(g1, "pic_xc" :> f.total @@ "xc" :> f.total) ELSE g1
        g3 == IF night_time(f) > 0 THEN Bump(g2, "night_pic" :> night_time(f)) ELSE g2
    IN  IF night_time(f) > 0 /\ is_xc(f)
        THEN Bump(g3, "night_pic_xc" :> night_time(f))
        ELSE g3

\* elif is_solo_flight:
SoloTypeStats(ts, f) == Bump(PicTypeStats(ts, f), "solo" :> f.total)

SoloGrand(g, f) ==
    LET g1 == Bump(g, "pic" :> f.total @@ "form_total" :> f.total @@ "solo" :> f.total)
        g2 == IF is_xc(f)
              THEN Bump(g1, "pic_xc" :> f.total @@ "solo_xc" :> f.total @@ "xc" :> f.total)
              ELSE g1
        g3 == IF night_time(f) > 0 THEN Bump(g2, "night_pic" :> night_time(f)) ELSE g2
    IN  IF night_time(f) > 0 /\ is_xc(f)
        THEN Bump(g3, "night_pic_xc" :> night_time(f))
        ELSE g3

\* The role chain applied to the accumulator of the row's type.
RoleTypeStats(ts, f) ==
    LET b == RoleBranch(f)
    IN
    CASE b = "student" -> StudentTypeStats(ts, f)
      [] b = "safety" -> SafetyTypeStats(ts, f)
      [] b = "sic" -> SicTypeStats(ts, f)
      [] b = "pic_sic_field" -> PicTypeStats(ts, f)
      [] b = "pic_solo" -> SoloTypeStats(ts, f)
      [] OTHER -> PicTypeStats(ts, f)

\* A slip: `if` for `elif`, so an instructed row also reaches the default branch.
RoleGrandFallThrough(g, f) ==
    LET b == RoleBranch(f)
    IN
    CASE b = "student" -> PicGrand(StudentGrand(g, f), f)
      [] b = "safety" -> SafetyGrand(g, f)
      [] b = "sic" -> SicGrand(g, f)
      [] b = "pic_sic_field" -> PicGrand(g, f)
      [] b = "pic_solo" -> SoloGrand(g, f)
      [] OTHER -> PicGrand(g, f)

\* The role chain applied to the grand totals.
RoleGrand(g, f) ==
    LET b == RoleBranch(f)
    IN
    CASE b = "student" -> StudentGrand(g, f)
      [] b = "safety" -> SafetyGrand(g, f)
      [] b = "sic" -> SicGrand(g, f)
      [] b = "pic_sic_field" -> PicGrand(g, f)
      [] b = "pic_solo" -> SoloGrand(g, f)
      [] OTHER -> PicGrand(g, f)

\* A slip: the accumulator keyed by the code as logged, not by normalize_type.
TypeStatsByRawType(stats, f) ==
    LET ntype == f.aircraft_type
    IN  IF f.aircraft_type = NoText THEN stats
        ELSE IF is_simulator(f.aircraft_type, f.reg)
        THEN Store(stats, ntype, SimTypeStats(Lookup(stats, ntype), f))
        ELSE Store(stats, ntype,
                   RoleTypeStats(CommonTypeStats(Lookup(stats, ntype), f), f))

\* One iteration of `for f in flights` on type_stats.
TypeStatsAfter(stats, f) ==
    LET ntype == normalize_type(f.aircraft_type)
    IN  IF f.aircraft_type = NoText THEN stats
        ELSE IF is_simulator(f.aircraft_type, f.reg)
        THEN Store(stats, ntype, SimTypeStats(Lookup(stats, ntype), f))
        ELSE Store(stats, ntype,
                   RoleTypeStats(CommonTypeStats(Lookup(stats, ntype), f), f))

\* A slip: the loop without its test for an empty aircraft type.
GrandAfterNoSkip(g, f) ==
    IF is_simulator(f.aircraft_type, f.reg) THEN SimGrand(g, f)
    ELSE RoleGrand(CommonGrand(g, f), f)

\* One iteration of `for f in flights` on grand.
GrandAfter(g, f) ==
    IF f.aircraft_type = NoText THEN g
    ELSE IF is_simulator(f.aircraft_type, f.reg) THEN SimGrand(g, f)
    ELSE RoleGrand(CommonGrand(g, f), f)

\* Keys of type_stats in insertion order after one iteration.
TypeOrderAfter(order, stats, f) ==
    LET ntype == normalize_type(f.aircraft_type)
    IN  IF f.aircraft_type = NoText \/ ntype \in DOMAIN stats THEN order
        ELSE Append(order, ntype)

(***************************************************************************)
(* caai_form_filler.py: fill_caai_form, the verification block             *)
(***************************************************************************)
Abs(x) == IF x < 0 THEN -x ELSE x

sum_check(g) == g.pic + g.sic + g.student

\* A slip: the role sum compared with grand.total instead of grand.form_total.
SumCheckStatusAgainstTotal(g) ==
    IF Abs(g.total - sum_check(g)) < SUM_CHECK_EPSILON THEN "OK" ELSE "INVESTIGATE"

\* 'OK' if diff < 0.5 else 'INVESTIGATE'
SumCheckStatus(g) ==
    IF Abs(g.form_total - sum_check(g)) < SUM_CHECK_EPSILON THEN "OK" ELSE "INVESTIGATE"

\* A slip: SIC credited at full weight.
caai_grand_full_sic(g) == g.pic + g.sic + g.student

\* grand['pic'] + grand['sic'] / 2 + grand['student']; every logged time is a multiple of 0.002 h
caai_grand(g) == g.pic + g.sic \div 2 + g.student

\* if i >= 10: the rows 13..22 of the summary table
MAX_FORM_ROWS == 10

\* list.sort(key=..., reverse=True) and sorted(..., reverse=True): a stable
\* sort, keys in descending order, equal keys in their order of arrival
RECURSIVE InsertDescending(_, _, _, _)
InsertDescending(sorted, k, stats, field) ==
    IF sorted = <<>> THEN <<k>>
    ELSE IF stats[Head(sorted)][field] >= stats[k][field]
         THEN <<Head(sorted)>> \o InsertDescending(Tail(sorted), k, stats, field)
         ELSE <<k>> \o sorted

RECURSIVE SortDescending(_, _, _)
SortDescending(keys, stats, field) ==
    IF keys = <<>> THEN <<>>
    ELSE InsertDescending(SortDescending(SubSeq(keys, 1, Len(keys) - 1), stats, field),
                          keys[Len(keys)], stats, field)

\* The listing printed under CAAI CATEGORIZATION: every type, by total.
categorization_order(stats, order) == SortDescending(order, stats, "total")

\* A slip: the table sorted on the key of the printed listing.
real_types_by_total(stats, order) ==
    LET IsReal(k) == ~stats[k].is_sim /\ stats[k].total > 0
    IN  SortDescending(SelectSeq(order, IsReal), stats, "total")

\* real_types: the types not marked is_sim that have time, by form_total.
real_types(stats, order) ==
    LET IsReal(k) == ~stats[k].is_sim /\ stats[k].total > 0
    IN  SortDescending(SelectSeq(order, IsReal), stats, "form_total")

\* sim_types, in dict order
sim_types(stats, order) ==
    LET IsSim(k) == stats[k].is_sim
    IN  SelectSeq(order, IsSim)

\* A slip: the loop over real_types without its break.
form_rows_untruncated(stats, order) == real_types(stats, order)

\* The types written to rows 13.. of the summary table, and the warning.
form_rows(stats, order) ==
    LET real == real_types(stats, order)
    IN  IF Len(real) > MAX_FORM_ROWS THEN SubSeq(real, 1, MAX_FORM_ROWS) ELSE real

truncation_warning(stats, order) == Len(real_types(stats, order)) > MAX_FORM_ROWS

\* real_types[:10]: the types written to rows 31.. of the instrument table
instrument_rows(stats, order) ==
    LET real == real_types(stats, order)
    IN  SubSeq(real, 1, IF Len(real) < MAX_FORM_ROWS THEN Len(real) ELSE MAX_FORM_ROWS)

\* solo_xc_flights and max(solo_xc_flights, key=distance): the place in the
\* list of the flight written to C17, 0 when there is none; max keeps the
\* first of several largest
longest_solo(fs) ==
    LET solo_xc_flights ==
            {i \in 1..Len(fs) :
                /\ fs[i].solo > 0
                /\ (fs[i].xc > 0 \/ fs[i].distance > XC_DISTANCE_NM * 10)
                /\ ~is_simulator(fs[i].aircraft_type, fs[i].reg)}
    IN  IF solo_xc_flights = {} THEN 0
        ELSE CHOOSE i \in solo_xc_flights :
                \A j \in solo_xc_flights :
                    \/ fs[i].distance > fs[j].distance
                    \/ (fs[i].distance = fs[j].distance /\ i <= j)

\* diff < 0.2 in the per-row check
ROW_CHECK_EPSILON == 200

\* role_sum of one row of the summary table
role_sum(ts) ==
    ts.day_pic + ts.day_sic + ts.day_student
        + ts.night_pic + ts.night_sic + ts.night_student

\* "OK" if diff < 0.2 else "MISMATCH=..."
row_status(ts) ==
    IF Abs(ts.form_total - role_sum(ts)) < ROW_CHECK_EPSILON THEN "OK" ELSE "MISMATCH"

\* The status printed for each row written to the summary table.
row_statuses(stats, order) ==
    LET rows == form_rows(stats, order)
    IN  [i \in 1..Len(rows) |-> row_status(stats[rows[i]])]

NoReport ==
    [sum_check |-> 0, diff |-> 0, status |-> "", caai_grand_total |-> 0,
     printed |-> <<>>, rows |-> <<>>, warning |-> FALSE, instrument_rows |-> <<>>,
     longest_solo |-> 0, row_statuses |-> <<>>]

(***************************************************************************)
(* caai_columns.py: add_caai_columns                                       *)
(***************************************************************************)
\* CAAI_GROUP_MAP.get(category, alef); the Hebrew letters are spelled out
CAAI_GROUP_MAP(category) ==
    CASE category = "C" -> "alef"
      [] category = "D" -> "dalet"
      [] category = "E" -> "bet"
      [] category = "F" -> "gimel"
      [] OTHER -> "alef"

\* round(x, 2) and round(x, 1) of an amount in thousandths: to the nearest
\* multiple of m, a tie going to the even multiple
RoundTo(x, m) ==
    LET q == x \div m
        r == x - q * m
    IN  IF 2 * r < m THEN q * m
        ELSE IF 2 * r > m THEN (q + 1) * m
        ELSE IF q % 2 = 0 THEN q * m ELSE (q + 1) * m

\* Counter: c[k] += v, a missing key counting as 0
CounterAdd(c, k, v) ==
    [x \in (DOMAIN c) \cup {k} |->
        IF x = k THEN (IF k \in DOMAIN c THEN c[k] ELSE 0) + v ELSE c[x]]

\* Counter.get(k, 0)
CounterGet(c, k) == IF k \in DOMAIN c THEN c[k] ELSE 0

\* xc > 0 or distance > 27
columns_is_xc(f) == f.xc > 0 \/ f.distance > XC_DISTANCE_NM * 10

\* A slip: the chain with the SIC test before the safety-pilot test.
columns_role_sic_first(f) ==
    LET single_engine == is_single_engine(f.aircraft_type)
        instructed == f.instructor # NoText \/ f.dual_recv > 0
        safety == Contains(Lower(f.remarks), safety_pilot)
        sic_field == f.sic > 0 /\ ~instructed
    IN  IF instructed THEN "Student"
        ELSE IF sic_field /\ ~single_engine THEN "SIC"
        ELSE IF sic_field /\ single_engine THEN "PIC"
        ELSE IF safety /\ single_engine THEN "Safety Pilot"
        ELSE IF f.solo > 0 THEN "PIC"
        ELSE "PIC"

\* The priority chain of add_caai_columns.
columns_role(f) ==
    LET single_engine == is_single_engine(f.aircraft_type)
        instructed == f.instructor # NoText \/ f.dual_recv > 0
        safety == Contains(Lower(f.remarks), safety_pilot)
        sic_field == f.sic > 0 /\ ~instructed
    IN  IF instructed THEN "Student"
        ELSE IF safety /\ single_engine THEN "Safety Pilot"
        ELSE IF sic_field /\ ~single_engine THEN "SIC"
        ELSE IF sic_field /\ single_engine THEN "PIC"
        ELSE IF f.solo > 0 THEN "PIC"
        ELSE "PIC"

\* A slip: the day cell holding whatever is left of the total after the night
\* cell, rounded down to a tenth of an hour.
columns_values_day_truncated(f) ==
    IF is_simulator(f.aircraft_type, f.reg)
    THEN [role |-> "N/A", group |-> "SIM", day_time |-> "None", night_time |-> "None",
          xc_flag |-> "No", is_simulator |-> "Yes", is_complex |-> "No",
          dual_instrument |-> "No"]
    ELSE LET day == ((f.total - f.night) \div 1000) * 1000
             instructed == f.instructor # NoText \/ f.dual_recv > 0
             has_inst_time == f.actual_inst > 0 \/ f.sim_inst > 0
         IN  [role |-> columns_role(f),
              group |-> CAAI_GROUP_MAP(get_caai_category(f.aircraft_type)),
              day_time |-> IF day > 0 THEN day ELSE 0,
              night_time |-> IF f.night > 0 THEN f.night ELSE 0,
              xc_flag |-> IF columns_is_xc(f) THEN "Yes" ELSE "No",
              is_simulator |-> "No",
              is_complex |-> IF is_complex_aircraft(f.aircraft_type) THEN "Yes" ELSE "No",
              dual_instrument |-> IF instructed /\ has_inst_time THEN "Yes" ELSE "No"]

\* The eight cells written for one row (columns 49-56).
columns_values(f) ==
    IF is_simulator(f.aircraft_type, f.reg)
    THEN [role |-> "N/A", group |-> "SIM", day_time |-> "None", night_time |-> "None",
          xc_flag |-> "No", is_simulator |-> "Yes", is_complex |-> "No",
          dual_instrument |-> "No"]
    ELSE LET day == RoundTo(f.total - f.night, 10)
             instructed == f.instructor # NoText \/ f.dual_recv > 0
             has_inst_time == f.actual_inst > 0 \/ f.sim_inst > 0
         IN  [role |-> columns_role(f),
              group |-> CAAI_GROUP_MAP(get_caai_category(f.aircraft_type)),
              day_time |-> IF day > 0 THEN day ELSE 0,
              night_time |-> IF f.night > 0 THEN f.night ELSE 0,
              xc_flag |-> IF columns_is_xc(f) THEN "Yes" ELSE "No",
              is_simulator |-> "No",
              is_complex |-> IF is_complex_aircraft(f.aircraft_type) THEN "Yes" ELSE "No",
              dual_instrument |-> IF instructed /\ has_inst_time THEN "Yes" ELSE "No"]

NewColumnStats ==
    [role_counts |-> <<>>, role_hours |-> <<>>, group_counts |-> <<>>,
     group_hours |-> <<>>, xc_count |-> 0, sim_count |-> 0, complex_count |-> 0,
     dual_inst_count |-> 0]

\* The tracking counters after one row.
ColumnStatsAfter(cs, f) ==
    LET v == columns_values(f)
    IN  IF f.aircraft_type = NoText THEN cs
        ELSE IF is_simulator(f.aircraft_type, f.reg)
        THEN [cs EXCEPT !.sim_count = @ + 1,
                        !.role_counts = CounterAdd(@, "N/A", 1),
                        !.group_counts = CounterAdd(@, "SIM", 1),
                        !.group_hours = CounterAdd(@, "SIM", f.total)]
        ELSE [cs EXCEPT !.role_counts = CounterAdd(@, v.role, 1),
                        !.role_hours = CounterAdd(@, v.role, f.total),
                        !.group_counts = CounterAdd(@, v.group, 1),
                        !.group_hours = CounterAdd(@, v.group, f.total),
                        !.xc_count = @ + (IF v.xc_flag = "Yes" THEN 1 ELSE 0),
                        !.complex_count = @ + (IF v.is_complex = "Yes" THEN 1 ELSE 0),
                        !.dual_inst_count = @ + (IF v.dual_instrument = "Yes" THEN 1 ELSE 0)]

\* The cells of the sheet after one row: a row with no aircraft type gets none.
SheetAfter(cells, f) ==
    IF f.aircraft_type = NoText THEN Append(cells, "blank")
    ELSE Append(cells, columns_values(f))

(***************************************************************************)
(* caai_analyzer.py: analyze_caai                                          *)
(***************************************************************************)
NewTypeTotals ==
    [category |-> "", is_sim |-> FALSE, is_multi |-> FALSE, total |-> 0,
     day_pic |-> 0, day_pic_xc |-> 0, day_sic |-> 0, day_student |-> 0,
     night_pic |-> 0, night_pic_xc |-> 0, night_sic |-> 0, night_student |-> 0,
     actual_inst |-> 0, sim_inst_air |-> 0, sim_time |-> 0,
     day_ldg |-> 0, night_ldg |-> 0, flights |-> 0]

NewGrandTotals ==
    [total_flights |-> 0, total_time |-> 0,
     pic_time |-> 0, sic_time |-> 0, student_time |-> 0, solo_time |-> 0,
     instructor_time |-> 0,
     night_time |-> 0, xc_time |-> 0,
     actual_inst |-> 0, sim_inst |-> 0, sim_time |-> 0,
     day_ldg |-> 0, night_ldg |-> 0,
     pic_xc |-> 0, night_pic |-> 0, night_pic_xc |-> 0,
     dual_night |-> 0, solo_xc |-> 0,
     safety_pilot_se |-> 0]

analyzer_is_xc(f) == f.xc > 0 \/ f.distance > XC_DISTANCE_NM * 10

\* The branch of the analyzer's if/elif chain that a row takes.
AnalyzerBranch(f) ==
    LET single_engine == is_single_engine(f.aircraft_type)
        instructed == f.instructor # NoText \/ f.dual_recv > 0
        is_instructor == f.dual_given > 0
        is_solo == f.solo > 0
        is_sic == f.sic > 0 /\ ~instructed
        safety == Contains(Lower(f.remarks), safety_pilot)
    IN  IF instructed THEN "student"
        ELSE IF safety /\ single_engine THEN "safety"
        ELSE IF is_instructor THEN "pic_instructor"
        ELSE IF is_solo THEN "pic_solo"
        ELSE IF is_sic /\ ~single_engine THEN "sic"
        ELSE IF f.pic > 0 THEN "pic"
        ELSE IF safety THEN "sic_safety"
        ELSE IF f.total > 0 THEN "pic_default"
        ELSE "none"

AnalyzerPicTotals(t, f) ==
    LET t1 == Bump(t, "day_pic" :> (f.total - f.night) @@ "night_pic" :> f.night)
    IN  IF analyzer_is_xc(f)
        THEN Bump(t1, "day_pic_xc" :> (f.total - f.night) @@ "night_pic_xc" :> f.night)
        ELSE t1

AnalyzerPicGrand(g, f) ==
    LET g1 == IF analyzer_is_xc(f) THEN Bump(g, "pic_xc" :> f.total) ELSE g
        g2 == Bump(g1, "pic_time" :> f.total)
        g3 == IF f.night > 0 THEN Bump(g2, "night_pic" :> f.night) ELSE g2
    IN  IF f.night > 0 /\ analyzer_is_xc(f)
        THEN Bump(g3, "night_pic_xc" :> f.night)
        ELSE g3

AnalyzerSicTotals(t, f) ==
    Bump(t, "day_sic" :> (f.total - f.night) @@ "night_sic" :> f.night)

\* The role chain on the entry of the row's type.
AnalyzerRoleTotals(t, f) ==
    LET b == AnalyzerBranch(f)
    IN
    CASE b = "student" ->
            Bump(t, "day_student" :> (f.total - f.night) @@ "night_student" :> f.night)
      [] b \in {"pic_instructor", "pic_solo", "pic", "pic_default"} ->
            AnalyzerPicTotals(t, f)
      [] b \in {"sic", "sic_safety"} -> AnalyzerSicTotals(t, f)
      [] OTHER -> t

\* The role chain on grand_totals.
AnalyzerRoleGrand(g, f) ==
    LET b == AnalyzerBranch(f)
    IN
    CASE b = "student" ->
            LET g1 == Bump(g, "student_time" :> f.total)
            IN  IF f.night > 0 THEN Bump(g1, "dual_night" :> f.night) ELSE g1
      [] b = "safety" -> Bump(g, "safety_pilot_se" :> f.total)
      [] b = "pic_instructor" ->
            Bump(AnalyzerPicGrand(g, f), "instructor_time" :> f.total)
      [] b = "pic_solo" ->
            LET g1 == IF analyzer_is_xc(f) THEN Bump(g, "solo_xc" :> f.total) ELSE g
            IN  Bump(AnalyzerPicGrand(g1, f), "solo_time" :> f.total)
      [] b \in {"sic", "sic_safety"} -> Bump(g, "sic_time" :> f.total)
      [] b \in {"pic", "pic_default"} -> AnalyzerPicGrand(g, f)
      [] OTHER -> g

\* One iteration of the analyzer's loop on type_totals (keyed by the raw type).
TypeTotalsAfter(totals, f) ==
    LET atype == f.aircraft_type
        sim == is_simulator(atype, f.reg)
        t0 == IF atype \in DOMAIN totals THEN totals[atype] ELSE NewTypeTotals
        t1 == Bump([t0 EXCEPT !.is_sim = sim, !.is_multi = ~is_single_engine(atype)],
                   "flights" :> 1)
        tsim == Bump([t1 EXCEPT !.category = "simulator"],
                     "sim_time" :> f.total @@ "actual_inst" :> f.actual_inst
                     @@ "sim_inst_air" :> f.sim_inst)
        t2 == Bump([t1 EXCEPT !.category = get_caai_category(atype)],
                   "total" :> f.total @@ "actual_inst" :> f.actual_inst
                   @@ "sim_inst_air" :> f.sim_inst @@ "day_ldg" :> f.day_ldg
                   @@ "night_ldg" :> f.night_ldg)
        new == IF sim THEN tsim ELSE AnalyzerRoleTotals(t2, f)
    IN  IF atype = NoText THEN totals
        ELSE [x \in (DOMAIN totals) \cup {atype} |-> IF x = atype THEN new ELSE totals[x]]

\* One iteration of the analyzer's loop on grand_totals.
GrandTotalsAfter(g, f) ==
    LET g1 == Bump(g, "total_flights" :> 1 @@ "total_time" :> f.total
                      @@ "night_time" :> f.night @@ "actual_inst" :> f.actual_inst
                      @@ "sim_inst" :> f.sim_inst @@ "day_ldg" :> f.day_ldg
                      @@ "night_ldg" :> f.night_ldg)
        g2 == IF analyzer_is_xc(f) THEN Bump(g1, "xc_time" :> f.total) ELSE g1
    IN  IF f.aircraft_type = NoText THEN g
        ELSE IF is_simulator(f.aircraft_type, f.reg) THEN Bump(g, "sim_time" :> f.total)
        ELSE AnalyzerRoleGrand(g2, f)

\* cat_totals[cat][key]: the sum of a key over the types of a category that are
\* not marked is_sim.
RECURSIVE SumOverTypes(_, _, _)
SumOverTypes(totals, keys, key) ==
    IF keys = {} THEN 0
    ELSE LET k == CHOOSE x \in keys : TRUE
         IN  totals[k][key] + SumOverTypes(totals, keys \ {k}, key)

cat_totals(totals, cat, key) ==
    SumOverTypes(totals,
                 {k \in DOMAIN totals : ~totals[k].is_sim /\ totals[k].category = cat},
                 key)

\* sic_half = sic_time / 2; caai_total = pic_time + student_time + sic_half
analyzer_caai_total(g) == g.pic_time + g.student_time + g.sic_time \div 2

(***************************************************************************)
(* The pass over the logbook                                               *)
(***************************************************************************)
NoRule == [aircraft_type |-> NoText, registration |-> NoText]

NoRuleOut == [applied |-> FALSE]

NoPrevious == [returned |-> FALSE]

Init ==
    /\ pc = "categorize"
    /\ flights = <<>>
    /\ type_stats = <<>>
    /\ type_order = <<>>
    /\ grand = NewGrand
    /\ report = NoReport
    /\ sheet = <<>>
    /\ column_stats = NewColumnStats
    /\ type_totals = <<>>
    /\ grand_totals = NewGrandTotals
    /\ caai_total = 0
    /\ rule_in = NoRule
    /\ rule_out = NoRuleOut
    /\ previous = NoPrevious
    /\ cursor = 0

\* categorize_flights: the loop body on row f.
CategorizeFlight(f) ==
    /\ type_stats' = TypeStatsAfter(type_stats, f)
    /\ type_order' = TypeOrderAfter(type_order, type_stats, f)
    /\ grand' = GrandAfter(grand, f)

\* add_caai_columns: the loop body on row f.
AddCaaiColumns(f) ==
    /\ sheet' = SheetAfter(sheet, f)
    /\ column_stats' = ColumnStatsAfter(column_stats, f)

\* analyze_caai: the loop body on row f.
AnalyzeCaai(f) ==
    /\ type_totals' = TypeTotalsAfter(type_totals, f)
    /\ grand_totals' = GrandTotalsAfter(grand_totals, f)

\* The three programs read the same logbook and share nothing else: each takes
\* the next row f of the logbook through its own loop body.
TakeRow(f) ==
    /\ pc = "categorize"
    /\ flights' = Append(flights, f)
    /\ CategorizeFlight(f)
    /\ AddCaaiColumns(f)
    /\ AnalyzeCaai(f)
    /\ UNCHANGED <<pc, report, caai_total, rule_in, rule_out, previous, cursor>>

\* A logbook of at most MaxFlights rows.
Row(f) ==
    /\ Len(flights) < MaxFlights
    /\ TakeRow(f)

\* The end of the logbook: fill_caai_form's sum check and half-credit total,
\* analyze_caai's half-credit total.
Verify ==
    /\ pc = "categorize"
    /\ pc' = "done"
    /\ report' = [sum_check |-> sum_check(grand),
                  diff |-> Abs(grand.form_total - sum_check(grand)),
                  status |-> SumCheckStatus(grand),
                  caai_grand_total |-> caai_grand(grand),
                  printed |-> categorization_order(type_stats, type_order),
                  rows |-> form_rows(type_stats, type_order),
                  warning |-> truncation_warning(type_stats, type_order),
                  instrument_rows |-> instrument_rows(type_stats, type_order),
                  longest_solo |-> longest_solo(flights),
                  row_statuses |-> row_statuses(type_stats, type_order)]
    /\ caai_total' = analyzer_caai_total(grand_totals)
    /\ UNCHANGED <<flights, type_stats, type_order, grand, sheet, column_stats,
                   type_totals, grand_totals, rule_in, rule_out, previous, cursor>>

Next ==
    \/ \E f \in Flights : Row(f)
    \/ Verify

Spec == Init /\ [][Next]_vars

(***************************************************************************)
(* A logbook of many aircraft types: one flight per type, of 1.0 h or      *)
(* 2.0 h, the types in a fixed order                                       *)
(***************************************************************************)
MaxOverflowFlights == 11

C152 == <<"C","1","5","2">>
C182 == <<"C","1","8","2">>
DA40 == <<"D","A","4","0">>
DA42 == <<"D","A","4","2">>
SR22 == <<"S","R","2","2">>

OverflowTypes == <<C172, PA28, PA44, BE76, A319, A320, H25B, C152, C182, DA40, DA42, SR22>>

OverflowRow ==
    /\ Len(flights) < MaxOverflowFlights
    /\ Len(flights) < Len(OverflowTypes)
    /\ \E t \in {1000, 2000} :
          TakeRow([PlainFlight EXCEPT !.aircraft_type = OverflowTypes[Len(flights) + 1],
                                      !.total = t])

NextOverflow ==
    \/ OverflowRow
    \/ Verify

SpecOverflow == Init /\ [][NextOverflow]_vars

(***************************************************************************)
(* A logbook of solo and cross-country flights                             *)
(***************************************************************************)
SoloRows ==
    { [SoloFlight EXCEPT !.distance = 271],
      [SoloFlight EXCEPT !.distance = 271, !.night = 500],
      [SoloFlight EXCEPT !.distance = 4000],
      [SoloFlight EXCEPT !.distance = 270],
      [SoloFlight EXCEPT !.distance = 1000, !.xc = 1100],
      [StudentFlight EXCEPT !.solo = 1400, !.distance = 5000],
      [SoloFlight EXCEPT !.aircraft_type = A320_FFS, !.distance = 6000],
      [SoloFlight EXCEPT !.aircraft_type = NoText, !.distance = 9000],
      [PlainFlight EXCEPT !.distance = 8000] }

NextSolo ==
    \/ \E f \in SoloRows : Row(f)
    \/ Verify

SpecSolo == Init /\ [][NextSolo]_vars

(***************************************************************************)
(* categorize_flights called a second time on the list it was given        *)
(***************************************************************************)
\* A slip: the accumulators kept between calls instead of made in the call.
grand_left_by_earlier_call(g) == g

\* grand = {...}: the dict a call of categorize_flights starts from, whatever
\* an earlier call left in its own
grand_at_call(g) == NewGrand

\* type_stats = defaultdict(...): likewise
type_stats_at_call(stats) == <<>>

\* Rows the two calls are given: one of each role, a simulator session, a
\* blank row, variant type codes.
TwiceRows ==
    { PlainFlight, StudentFlight, SicFlight, SoloFlight, SafetyFlight,
      [PlainFlight EXCEPT !.night = 2000, !.distance = 271],
      [StudentFlight EXCEPT !.actual_inst = 300, !.sim_inst = 200],
      [PlainFlight EXCEPT !.aircraft_type = A320_FFS, !.total = 2000, !.night = 500,
                          !.distance = 271, !.night_ldg = 1],
      [StudentFlight EXCEPT !.reg = FRASCA_142, !.total = 1000, !.sim_inst = 1000],
      [PlainFlight EXCEPT !.aircraft_type = NoText, !.total = 0, !.day_ldg = 0],
      [SicFlight EXCEPT !.aircraft_type = Lower(PA44)],
      [PlainFlight EXCEPT !.aircraft_type = C172R] }

\* The first call has returned; the second call starts on the same list.
CallAgain ==
    /\ pc = "categorize"
    /\ pc' = "again"
    /\ previous' = [returned |-> TRUE, type_stats |-> type_stats,
                    type_order |-> type_order, grand |-> grand, flights |-> flights]
    /\ type_stats' = type_stats_at_call(type_stats)
    /\ type_order' = <<>>
    /\ grand' = grand_at_call(grand)
    /\ cursor' = 0
    /\ UNCHANGED <<flights, report, sheet, column_stats, type_totals, grand_totals,
                   caai_total, rule_in, rule_out>>

\* The loop body of the second call on the next row of the list.
RowAgain ==
    /\ pc = "again"
    /\ cursor < Len(flights)
    /\ CategorizeFlight(flights[cursor + 1])
    /\ cursor' = cursor + 1
    /\ UNCHANGED <<pc, flights, report, sheet, column_stats, type_totals, grand_totals,
                   caai_total, rule_in, rule_out, previous>>

NextTwice ==
    \/ \E f \in TwiceRows : Row(f)
    \/ CallAgain
    \/ RowAgain

SpecTwice == Init /\ [][NextTwice]_vars

(***************************************************************************)
(* caai_rules.py applied to one (aircraft_type, registration) pair         *)
(***************************************************************************)
FRASCA_TYPE == <<"F","R","A","S","C","A">>
C172_SIM == <<"C","1","7","2"," ","s","i","m">>
PA44_FTD == <<"P","A","4","4"," ","F","T","D">>
PA44_180 == <<"P","A","4","4","-","1","8","0">>
SIM_1 == <<"S","I","M"," ","1">>
ATP_CTP == <<"A","T","P"," ","C","T","P">>
N4ATP == <<"N","4"," ","A","T","P">>
FlightSafety_3 == <<"F","l","i","g","h","t"," ","S","a","f","e","t","y"," ","3">>
CAE_7000 == <<"c","a","e"," ","7","0","0","0">>
X4_FTD == <<"4","X","-","F","T","D">>
PA44_A320 == <<"p","a","4","4","/","A","3","2","0">>

TypePool ==
    {C172, C172R, Lower(C172K), P28A161, PA44, Lower(PA44), PA44_180, BE76, A319,
     A320, H25B, A320_FFS, C172_SIM, PA44_FTD, FRASCA_TYPE, PA44_A320, NoText}

RegPool ==
    {N12345, FRASCA_142, Lower(FRASCA_142), SIM_1, ATP_CTP, Lower(ATP), N4ATP,
     FlightSafety_3, CAE_7000, X4_FTD, NoText}

InitRules ==
    /\ pc = "rules"
    /\ flights = <<>>
    /\ type_stats = <<>>
    /\ type_order = <<>>
    /\ grand = NewGrand
    /\ report = NoReport
    /\ sheet = <<>>
    /\ column_stats = NewColumnStats
    /\ type_totals = <<>>
    /\ grand_totals = NewGrandTotals
    /\ caai_total = 0
    /\ rule_in \in [aircraft_type : TypePool, registration : RegPool]
    /\ rule_out = NoRuleOut
    /\ previous = NoPrevious
    /\ cursor = 0

\* Every function of caai_rules.py called on rule_in.
ApplyRules ==
    /\ pc = "rules"
    /\ ~rule_out.applied
    /\ rule_out' =
         [applied |-> TRUE,
          is_simulator |-> is_simulator(rule_in.aircraft_type, rule_in.registration),
          category |-> get_caai_category(rule_in.aircraft_type),
          single_engine |-> is_single_engine(rule_in.aircraft_type),
          normalized |-> normalize_type(rule_in.aircraft_type),
          complex |-> is_complex_aircraft(rule_in.aircraft_type),
          group |-> CAAI_GROUP_MAP(get_caai_category(rule_in.aircraft_type))]
    /\ UNCHANGED <<pc, flights, type_stats, type_order, grand, report, sheet,
                   column_stats, type_totals, grand_totals, caai_total, rule_in,
                   previous, cursor>>

NextRules == ApplyRules

SpecRules == InitRules /\ [][NextRules]_vars

(***************************************************************************)
(* fill_caai_form's verification block applied to a grand record built by  *)
(* hand: consistent role sums, then one more flight's time put into        *)
(* grand.total, and into grand.form_total or not, but into no role bucket  *)
(***************************************************************************)
SyntheticGrand(pic, sic, student, safety, omitted, in_form_total) ==
    [NewGrand EXCEPT !.pic = pic, !.sic = sic, !.student = student,
                     !.safety_pilot_se = safety,
                     !.form_total = pic + sic + student
                                    + (IF in_form_total THEN omitted ELSE 0),
                     !.total = pic + sic + student + safety + omitted]

SyntheticGrands ==
    { SyntheticGrand(p, s, st, sp, om, ft) :
        p \in {0, 1500}, s \in {0, 1500}, st \in {0, 1500}, sp \in {0, 1500},
        om \in {0, 400, 500, 1500}, ft \in BOOLEAN }

InitReconcile ==
    /\ pc = "categorize"
    /\ flights = <<>>
    /\ type_stats = <<>>
    /\ type_order = <<>>
    /\ grand \in SyntheticGrands
    /\ report = NoReport
    /\ sheet = <<>>
    /\ column_stats = NewColumnStats
    /\ type_totals = <<>>
    /\ grand_totals = NewGrandTotals
    /\ caai_total = 0
    /\ rule_in = NoRule
    /\ rule_out = NoRuleOut
    /\ previous = NoPrevious
    /\ cursor = 0

NextReconcile == Verify

SpecReconcile == InitReconcile /\ [][NextReconcile]_vars

(***************************************************************************)
(* Properties                                                              *)
(***************************************************************************)
\* The row the step has just consumed, and what it is.
Took == Len(flights') = Len(flights) + 1

New == flights'[Len(flights')]

Last == flights[Len(flights)]

IsAircraftRow(f) ==
    f.aircraft_type # NoText /\ ~is_simulator(f.aircraft_type, f.reg)

Instructed(f) == f.instructor # NoText \/ f.dual_recv > 0

SafetyMarked(f) == Contains(Lower(f.remarks), safety_pilot)

\* How much the step added to a field of grand, and to a field of the
\* accumulator of the consumed row's type.
GrandDelta(k) == grand'[k] - grand[k]

NewKey == normalize_type(New.aircraft_type)

TypeDelta(k) == type_stats'[NewKey][k] - Lookup(type_stats, NewKey)[k]

RECURSIVE SumOfFields(_, _)
SumOfFields(r, fields) ==
    IF fields = <<>> THEN 0 ELSE r[Head(fields)] + SumOfFields(r, Tail(fields))

RECURSIVE SumOfTypes(_, _, _)
SumOfTypes(stats, keys, fields) ==
    IF keys = {} THEN 0
    ELSE LET k == CHOOSE x \in keys : TRUE
         IN  SumOfFields(stats[k], fields) + SumOfTypes(stats, keys \ {k}, fields)

\* C1: after any logbook, grand.form_total equals grand.pic + grand.sic +
\* grand.student, so the sum check of fill_caai_form finds a difference below
\* 0.5 h and prints OK, never INVESTIGATE.
C1_FormTotalIsRoleSum ==
    /\ grand.form_total = grand.pic + grand.sic + grand.student
    /\ pc = "done" =>
         /\ report.diff < SUM_CHECK_EPSILON
         /\ report.status = "OK"

\* A finished logbook holding safety-pilot time and credited time.
C1_Witness ==
    /\ pc = "done"
    /\ grand.safety_pilot_se > 0
    /\ grand.form_total > 0
    /\ grand.total = grand.form_total + grand.safety_pilot_se

\* C2: an aircraft row adds its total time to exactly one of grand.pic,
\* grand.sic, grand.student, grand.safety_pilot_se and leaves the other three.
C2_Roles == {"pic", "sic", "student", "safety_pilot_se"}

C2_ExactlyOneRole ==
    [][ (Took /\ IsAircraftRow(New)) =>
          \E k \in C2_Roles :
              /\ GrandDelta(k) = New.total
              /\ \A j \in C2_Roles \ {k} : GrandDelta(j) = 0 ]_vars

\* Two aircraft rows credited to two different roles.
C2_Witness ==
    /\ Len(flights) = 2
    /\ IsAircraftRow(flights[1]) /\ IsAircraftRow(flights[2])
    /\ grand.student = flights[1].total
    /\ grand.safety_pilot_se = flights[2].total
    /\ grand.pic = 0 /\ grand.sic = 0

\* The role buckets of a type accumulator.
StudentBuckets == <<"day_student", "night_student">>

SicBuckets == <<"day_sic", "night_sic">>

PicBuckets == <<"day_pic", "night_pic">>

RoleBuckets == StudentBuckets \o SicBuckets \o PicBuckets

TypeBucketsDelta(fields) ==
    SumOfFields(type_stats'[NewKey], fields) - SumOfFields(Lookup(type_stats, NewKey), fields)

\* C3: an aircraft row with an instructor name or dual received time is a
\* Student row whatever its sic, solo, pic, remarks and engine class: its time
\* goes to the student buckets and to none of pic, sic, safety_pilot_se.
C3_StudentWins ==
    [][ (Took /\ IsAircraftRow(New) /\ Instructed(New)) =>
          /\ GrandDelta("student") = New.total
          /\ GrandDelta("pic") = 0
          /\ GrandDelta("sic") = 0
          /\ GrandDelta("safety_pilot_se") = 0
          /\ TypeBucketsDelta(StudentBuckets) = New.total
          /\ TypeBucketsDelta(SicBuckets) = 0
          /\ TypeBucketsDelta(PicBuckets) = 0
          /\ TypeDelta("safety_pilot") = 0
          /\ sheet'[Len(sheet')].role = "Student" ]_vars

\* An instructed single-engine row that also carries a safety-pilot marker
\* and SIC time, credited to Student.
C3_Witness ==
    /\ flights # <<>>
    /\ IsAircraftRow(Last)
    /\ Last.instructor # NoText
    /\ SafetyMarked(Last) /\ is_single_engine(Last.aircraft_type)
    /\ Last.sic > 0
    /\ grand.student = Last.total
    /\ sheet[Len(sheet)].role = "Student"

\* C4: a single-engine aircraft row with no instructor whose remarks hold
\* "safety pilot" in any letter case adds its total time to safety_pilot_se
\* (grand and type) and leaves grand.pic, grand.sic, grand.student,
\* grand.form_total and the type's form_total and role buckets unchanged.
C4_SafetyPilotExcluded ==
    [][ (/\ Took /\ IsAircraftRow(New)
         /\ is_single_engine(New.aircraft_type)
         /\ ~Instructed(New)
         /\ SafetyMarked(New)) =>
          /\ GrandDelta("safety_pilot_se") = New.total
          /\ TypeDelta("safety_pilot") = New.total
          /\ GrandDelta("pic") = 0
          /\ GrandDelta("sic") = 0
          /\ GrandDelta("student") = 0
          /\ GrandDelta("form_total") = 0
          /\ TypeDelta("form_total") = 0
          /\ \A k \in {"day_pic", "day_pic_xc", "day_sic", "day_student",
                       "night_pic", "night_pic_xc", "night_sic", "night_student"} :
                TypeDelta(k) = 0
          /\ grand_totals'.safety_pilot_se - grand_totals.safety_pilot_se = New.total ]_vars

\* A safety-pilot row of 1.5 h, marker in mixed case, after a credited row
\* of the same type.
C4_Witness ==
    /\ Len(flights) = 2
    /\ flights[1].aircraft_type = flights[2].aircraft_type
    /\ grand.form_total = flights[1].total /\ grand.form_total > 0
    /\ Last.remarks = SafetyPilotRemark
    /\ Last.total = 1500
    /\ grand.safety_pilot_se = 1500
    /\ type_stats[normalize_type(Last.aircraft_type)].safety_pilot = 1500

\* C5 as stated: a single-engine aircraft row with sic_time > 0 and no
\* instructor is a PIC row: its time is added to the PIC buckets and grand.sic
\* is unchanged.
C5_SingleEngineSicIsPic_AsStated ==
    [][ (/\ Took /\ IsAircraftRow(New)
         /\ is_single_engine(New.aircraft_type)
         /\ New.sic > 0
         /\ New.instructor = NoText /\ New.dual_recv = 0) =>
          /\ GrandDelta("pic") = New.total
          /\ TypeBucketsDelta(PicBuckets) = New.total
          /\ GrandDelta("sic") = 0 ]_vars

\* C5 amended: such a row is never a SIC row (grand.sic and the type's SIC
\* buckets are unchanged); it is a PIC row when its remarks hold no safety-pilot
\* marker, and a safety-pilot row (rule 2 comes first) when they do.
C5_SingleEngineSicIsPic ==
    [][ (/\ Took /\ IsAircraftRow(New)
         /\ is_single_engine(New.aircraft_type)
         /\ New.sic > 0
         /\ New.instructor = NoText /\ New.dual_recv = 0) =>
          /\ GrandDelta("sic") = 0
          /\ TypeBucketsDelta(SicBuckets) = 0
          /\ sheet'[Len(sheet')].role # "SIC"
          /\ ~SafetyMarked(New) =>
                /\ GrandDelta("pic") = New.total
                /\ TypeBucketsDelta(PicBuckets) = New.total
                /\ GrandDelta("safety_pilot_se") = 0
                /\ sheet'[Len(sheet')].role = "PIC"
          /\ SafetyMarked(New) =>
                /\ GrandDelta("safety_pilot_se") = New.total
                /\ GrandDelta("pic") = 0
                /\ sheet'[Len(sheet')].role = "Safety Pilot" ]_vars

\* A single-engine row with SIC time, no instructor and no marker, credited
\* to PIC.
C5_Witness ==
    /\ flights # <<>>
    /\ IsAircraftRow(Last)
    /\ is_single_engine(Last.aircraft_type)
    /\ Last.sic > 0 /\ ~Instructed(Last) /\ ~SafetyMarked(Last)
    /\ grand.pic >= Last.total /\ grand.pic > 0
    /\ grand.sic = 0
    /\ sheet[Len(sheet)].role = "PIC"

\* C6: a multi-engine aircraft row with sic_time > 0, no instructor and no
\* safety-pilot marker is a SIC row, also when it has solo or pic time: its
\* time goes to the type's day_sic/night_sic, to grand.sic and to
\* grand.form_total, and not to grand.pic.
C6_MultiEngineSic ==
    [][ (/\ Took /\ IsAircraftRow(New)
         /\ ~is_single_engine(New.aircraft_type)
         /\ New.sic > 0
         /\ ~Instructed(New)
         /\ ~SafetyMarked(New)) =>
          /\ TypeDelta("day_sic") = New.total - New.night
          /\ TypeDelta("night_sic") = New.night
          /\ GrandDelta("sic") = New.total
          /\ GrandDelta("form_total") = New.total
          /\ GrandDelta("pic") = 0
          /\ sheet'[Len(sheet')].role = "SIC" ]_vars

\* A multi-engine row with SIC, solo and PIC time, credited to SIC.
C6_Witness ==
    /\ flights # <<>>
    /\ IsAircraftRow(Last)
    /\ ~is_single_engine(Last.aircraft_type)
    /\ Last.sic > 0 /\ Last.solo > 0 /\ Last.pic > 0
    /\ ~Instructed(Last) /\ ~SafetyMarked(Last)
    /\ grand.sic = Last.total
    /\ type_stats[normalize_type(Last.aircraft_type)].day_sic = Last.total

\* The cross-country condition as the documents state it, on the raw fields.
CrossCountry(f) == f.xc > 0 \/ f.distance > XC_DISTANCE_NM * 10

IsSimulatorRow(f) ==
    f.aircraft_type # NoText /\ is_simulator(f.aircraft_type, f.reg)

\* What each of the three programs made of the cross-country flag of the
\* consumed row: the all-roles sum of the form filler, the Is XC cell of the
\* column writer, the xc_time sum of the analyzer.
FillerFlagged == GrandDelta("xc_all_roles") = New.total

ColumnFlagged == sheet'[Len(sheet')].xc_flag = "Yes"

AnalyzerFlagged == grand_totals'.xc_time - grand_totals.xc_time = New.total

\* C7 as stated: for every flight with an aircraft type, simulator sessions
\* included, the three programs flag cross-country exactly when
\* cross_country_time > 0 or distance_nm > 27.
C7_CrossCountryFlag_AsStated ==
    [][ (Took /\ New.aircraft_type # NoText /\ New.total > 0) =>
          /\ FillerFlagged <=> CrossCountry(New)
          /\ ColumnFlagged <=> CrossCountry(New)
          /\ AnalyzerFlagged <=> CrossCountry(New) ]_vars

\* C7 amended: for every aircraft (non-simulator) row the three programs flag
\* cross-country exactly when cross_country_time > 0 or distance_nm > 27, a
\* distance of exactly 27 with no cross-country time being unflagged; a
\* simulator session is flagged by none of them whatever its distance.
C7_CrossCountryFlag ==
    [][ /\ (Took /\ IsAircraftRow(New) /\ New.total > 0) =>
            /\ FillerFlagged <=> CrossCountry(New)
            /\ ColumnFlagged <=> CrossCountry(New)
            /\ AnalyzerFlagged <=> CrossCountry(New)
            /\ (New.xc = 0 /\ New.distance = XC_DISTANCE_NM * 10) => ~ColumnFlagged
            /\ New.distance = XC_DISTANCE_NM * 10 + 1 => ColumnFlagged
            /\ ~FillerFlagged => GrandDelta("xc_all_roles") = 0
        /\ (Took /\ IsSimulatorRow(New)) =>
            /\ GrandDelta("xc_all_roles") = 0
            /\ sheet'[Len(sheet')].xc_flag = "No"
            /\ grand_totals'.xc_time = grand_totals.xc_time ]_vars

\* A row at exactly 27 NM left unflagged, then a row at 27.1 NM flagged, neither
\* with cross-country time.
C7_Witness ==
    /\ Len(flights) = 2
    /\ IsAircraftRow(flights[1]) /\ IsAircraftRow(flights[2])
    /\ flights[1].xc = 0 /\ flights[1].distance = XC_DISTANCE_NM * 10
    /\ flights[2].xc = 0 /\ flights[2].distance = XC_DISTANCE_NM * 10 + 1
    /\ sheet[1].xc_flag = "No" /\ sheet[2].xc_flag = "Yes"
    /\ grand.xc_all_roles = flights[2].total
    /\ grand_totals.xc_time = flights[2].total
    /\ column_stats.xc_count = 1

\* The total time of the rows that take the SIC branch of categorize_flights.
RECURSIVE SicLogged(_)
SicLogged(fs) ==
    IF fs = <<>> THEN 0
    ELSE LET f == Head(fs)
         IN  (IF /\ IsAircraftRow(f) /\ ~Instructed(f)
                 /\ ~is_single_engine(f.aircraft_type) /\ f.sic > 0
              THEN f.total ELSE 0) + SicLogged(Tail(fs))

\* C8: the half-credit total is pic + sic / 2 + student (100, 20, 50 give
\* 160), in fill_caai_form and in analyze_caai; grand.sic and the per-type
\* day_sic/night_sic hold the SIC rows' time at full weight.
C8_HalfCredit ==
    /\ caai_grand([NewGrand EXCEPT !.pic = 100000, !.sic = 20000, !.student = 50000])
         = 160000
    /\ grand.sic = SicLogged(flights)
    /\ SumOfTypes(type_stats, DOMAIN type_stats, SicBuckets) = grand.sic
    /\ pc = "done" =>
         /\ 2 * report.caai_grand_total = 2 * grand.pic + grand.sic + 2 * grand.student
         /\ 2 * caai_total = 2 * grand_totals.pic_time + grand_totals.sic_time
                               + 2 * grand_totals.student_time

\* A finished logbook of one 1.5 h PIC row and one 1.5 h SIC row: 2.25 h.
C8_Witness ==
    /\ pc = "done"
    /\ grand.pic = 1500 /\ grand.sic = 1500 /\ grand.student = 0
    /\ report.caai_grand_total = 2250
    /\ caai_total = 2250

\* C9: a simulator session changes, in the form filler's accumulators, only
\* grand.sim_device and the keyed entry's inst_sim_device (both by its total
\* time) and is_sim marker; every other field of grand, every other entry of
\* type_stats stay as they were, and the column writer gives it no role.
C9_SimulatorFrame ==
    [][ (Took /\ IsSimulatorRow(New)) =>
          /\ grand' = [grand EXCEPT !.sim_device = @ + New.total]
          /\ DOMAIN type_stats' = DOMAIN type_stats \cup {NewKey}
          /\ type_stats'[NewKey] =
               [Lookup(type_stats, NewKey) EXCEPT !.inst_sim_device = @ + New.total,
                                                  !.is_sim = TRUE]
          /\ \A k \in DOMAIN type_stats \ {NewKey} : type_stats'[k] = type_stats[k]
          /\ sheet'[Len(sheet')].role = "N/A"
          /\ sheet'[Len(sheet')].is_simulator = "Yes" ]_vars

\* A simulator session with night time and a distance above 27 NM, logged
\* after an aircraft row: only the device time has moved.
C9_Witness ==
    /\ Len(flights) = 2
    /\ IsAircraftRow(flights[1])
    /\ IsSimulatorRow(flights[2])
    /\ flights[2].night > 0 /\ flights[2].distance > XC_DISTANCE_NM * 10
    /\ grand.sim_device = flights[2].total /\ grand.sim_device > 0
    /\ grand.total = flights[1].total
    /\ grand.night = flights[1].night
    /\ grand.xc_all_roles = 0
    /\ type_stats[normalize_type(flights[2].aircraft_type)].inst_sim_device
         = flights[2].total

\* The simulator and training-device markers named by is_simulator.
SimulatorMarkers == {SIM, FTD, FFS, FRASCA, FLIGHT_SAFETY, CAE}

HasMarker(s) == \E m \in SimulatorMarkers : Contains(Upper(s), m)

\* C10: is_simulator is true exactly when either field holds one of the six
\* markers in any letter case, or the first token of the registration is ATP.
C10_MarkerInEitherField ==
    rule_out.applied =>
        (rule_out.is_simulator <=>
            \/ HasMarker(rule_in.aircraft_type)
            \/ HasMarker(rule_in.registration)
            \/ FirstToken(Upper(rule_in.registration)) = ATP)

\* The type code FRASCA with an ordinary registration, not taken for a
\* simulator.
C10_Witness ==
    /\ rule_out.applied
    /\ rule_in.aircraft_type = FRASCA_TYPE
    /\ rule_in.registration = N12345
    /\ ~rule_out.is_simulator

\* The markers get_caai_category looks for.
JetMarkers == {A319, A320, H25B}

PistonMarkers == {PA44, BE76}

HasJetMarker(s) == \E m \in JetMarkers : Contains(Upper(s), m)

HasPistonMarker(s) == \E m \in PistonMarkers : Contains(Upper(s), m)

\* C11: get_caai_category gives every type string, in any letter case, one
\* code: F when it holds a jet/turboprop marker (also when it holds a piston
\* marker too), else E when it holds a multi-engine piston marker, else C.
C11_CategoryPrecedence ==
    rule_out.applied =>
        /\ rule_out.category \in {"C", "E", "F"}
        /\ HasJetMarker(rule_in.aircraft_type) => rule_out.category = "F"
        /\ (~HasJetMarker(rule_in.aircraft_type) /\ HasPistonMarker(rule_in.aircraft_type))
              => rule_out.category = "E"
        /\ (~HasJetMarker(rule_in.aircraft_type) /\ ~HasPistonMarker(rule_in.aircraft_type))
              => rule_out.category = "C"

\* A code holding a piston marker and then a jet marker, classified F.
C11_Witness ==
    /\ rule_out.applied
    /\ rule_in.aircraft_type = PA44_A320
    /\ rule_out.category = "F"

\* C12: cross-country sums never exceed their base sums: for every type
\* day_pic_xc <= day_pic and night_pic_xc <= night_pic, and in grand
\* pic_xc <= pic, night_pic_xc <= night_pic and pic_xc <= xc_all_roles.
C12_XcWithinBase ==
    /\ \A k \in DOMAIN type_stats :
          /\ type_stats[k].day_pic_xc <= type_stats[k].day_pic
          /\ type_stats[k].night_pic_xc <= type_stats[k].night_pic
    /\ grand.pic_xc <= grand.pic
    /\ grand.night_pic_xc <= grand.night_pic
    /\ grand.pic_xc <= grand.xc_all_roles

\* A PIC row whose night time exceeds its total time, then a cross-country PIC
\* row of the same type: the type's day_pic_xc is above its day_pic.
C12_Witness ==
    /\ Len(flights) = 2
    /\ flights[1].night > flights[1].total /\ ~CrossCountry(flights[1])
    /\ flights[2].night = 0 /\ CrossCountry(flights[2])
    /\ type_stats[C172].day_pic = 1000
    /\ type_stats[C172].day_pic_xc = 1500

\* The Day Time and Night Time cells written for the consumed row.
DayCell == sheet'[Len(sheet')].day_time

NightCell == sheet'[Len(sheet')].night_time

\* C13 as stated: for every non-simulator flight the derived day and night
\* values, in categorize_flights and in the Day Time and Night Time cells,
\* add up to the total time.
C13_DayNightPartition_AsStated ==
    [][ (Took /\ IsAircraftRow(New)) =>
          /\ day_time(New) + night_time(New) = New.total
          /\ DayCell + NightCell = New.total ]_vars

\* C13 amended: categorize_flights' day_time + night_time is the total time
\* of every non-simulator flight; the two cells add up to the total time when
\* night_time <= total_time and the times are whole hundredths of an hour, and
\* to within 0.005 h of it when night_time <= total_time; when night_time
\* exceeds total_time the day cell is 0 and the cells add up to night_time.
C13_DayNightPartition ==
    [][ (Took /\ IsAircraftRow(New)) =>
          /\ day_time(New) + night_time(New) = New.total
          /\ New.night <= New.total =>
                /\ 2 * Abs(DayCell + NightCell - New.total) <= 10
                /\ (New.total - New.night) % 10 = 0 => DayCell + NightCell = New.total
          /\ New.night > New.total =>
                /\ DayCell = 0
                /\ DayCell + NightCell = New.night ]_vars

\* A row flown partly at night whose cells add up to its total time.
C13_Witness ==
    /\ flights # <<>>
    /\ IsAircraftRow(Last)
    /\ Last.night > 0 /\ Last.night < Last.total
    /\ sheet[Len(sheet)].day_time = Last.total - Last.night
    /\ sheet[Len(sheet)].night_time = Last.night

\* The per-type day and night role buckets.
DayNightBuckets ==
    {"day_pic", "day_pic_xc", "day_sic", "day_student",
     "night_pic", "night_pic_xc", "night_sic", "night_student"}

\* C14: no flight, one whose night time exceeds its total time included, adds
\* a negative amount to a per-type day or night role bucket, in
\* categorize_flights or in analyze_caai: no such bucket ever decreases.
C14_NoNegativeContribution ==
    [][ (Took /\ IsAircraftRow(New)) =>
          /\ \A k \in DayNightBuckets : TypeDelta(k) >= 0
          /\ \A k \in DayNightBuckets :
                type_totals'[New.aircraft_type][k] >=
                  (IF New.aircraft_type \in DOMAIN type_totals
                   THEN type_totals[New.aircraft_type][k] ELSE 0) ]_vars

\* A PIC row of 1.5 h with 2.0 h of night time has left the type's day_pic
\* at -0.5 h.
C14_Witness ==
    /\ Len(flights) = 1
    /\ IsAircraftRow(Last)
    /\ Last.total = 1500 /\ Last.night = 2000
    /\ type_stats[C172].day_pic = -500
    /\ type_totals[C172].day_pic = -500

\* The dual-instrument condition on the raw fields of a row.
DualInstrument(f) == Instructed(f) /\ (f.actual_inst > 0 \/ f.sim_inst > 0)

\* C15: the Dual Instrument cell of an aircraft row is Yes exactly when the
\* row is instructed and has actual or simulated instrument time; grand.dual_inst
\* and the type's dual_inst grow by actual + simulated instrument time on such
\* a row and are unchanged by every other aircraft row.
C15_DualInstrument ==
    [][ (Took /\ IsAircraftRow(New)) =>
          /\ sheet'[Len(sheet')].dual_instrument = "Yes" <=> DualInstrument(New)
          /\ GrandDelta("dual_inst") =
               IF DualInstrument(New) THEN New.actual_inst + New.sim_inst ELSE 0
          /\ TypeDelta("dual_inst") =
               IF DualInstrument(New) THEN New.actual_inst + New.sim_inst ELSE 0
          /\ column_stats'.dual_inst_count - column_stats.dual_inst_count =
               IF DualInstrument(New) THEN 1 ELSE 0 ]_vars

\* A PIC row with instrument time that left dual_inst alone, then a Student
\* row with actual and simulated instrument time that raised it by their sum.
C15_Witness ==
    /\ Len(flights) = 2
    /\ IsAircraftRow(flights[1]) /\ ~Instructed(flights[1])
    /\ flights[1].actual_inst > 0
    /\ Instructed(flights[2])
    /\ flights[2].actual_inst > 0 /\ flights[2].sim_inst > 0
    /\ grand.dual_inst = flights[2].actual_inst + flights[2].sim_inst
    /\ sheet[1].dual_instrument = "No" /\ sheet[2].dual_instrument = "Yes"

\* The sum of a field over the aircraft rows of a logbook.
RECURSIVE SumOverAircraftRows(_, _)
SumOverAircraftRows(fs, field) ==
    IF fs = <<>> THEN 0
    ELSE (IF IsAircraftRow(Head(fs)) THEN Head(fs)[field] ELSE 0)
         + SumOverAircraftRows(Tail(fs), field)

\* C16: grand.actual_inst and grand.sim_inst_air are the sums of the actual
\* and simulated instrument time of all non-simulator rows, whatever their
\* role.
C16_InstrumentUnconditional ==
    /\ grand.actual_inst = SumOverAircraftRows(flights, "actual_inst")
    /\ grand.sim_inst_air = SumOverAircraftRows(flights, "sim_inst")

\* A safety-pilot row with simulated instrument time and a SIC row with
\* actual instrument time, both counted.
C16_Witness ==
    /\ Len(flights) = 2
    /\ grand.safety_pilot_se > 0 /\ grand.sic > 0
    /\ grand.pic = 0 /\ grand.student = 0
    /\ grand.sim_inst_air = 200
    /\ grand.actual_inst = 300

\* The types fill_caai_form reports as aircraft.
ReportedTypes == {k \in DOMAIN type_stats : ~type_stats[k].is_sim /\ type_stats[k].total > 0}

Categories == {"C", "D", "E", "F"}

RECURSIVE SumOverCategories(_, _)
SumOverCategories(cats, key) ==
    IF cats = {} THEN 0
    ELSE LET c == CHOOSE x \in cats : TRUE
         IN  cat_totals(type_totals, c, key) + SumOverCategories(cats \ {c}, key)

\* C17: over the reported (non-simulator) types, the day and night buckets of
\* each role add up to the role's grand total and the form totals add up to
\* grand.form_total; in the analyzer the category totals add up to the grand
\* totals likewise.
C17_TypesRollUp ==
    /\ SumOfTypes(type_stats, ReportedTypes, PicBuckets) = grand.pic
    /\ SumOfTypes(type_stats, ReportedTypes, SicBuckets) = grand.sic
    /\ SumOfTypes(type_stats, ReportedTypes, StudentBuckets) = grand.student
    /\ SumOfTypes(type_stats, ReportedTypes, <<"form_total">>) = grand.form_total
    /\ SumOverCategories(Categories, "day_pic") + SumOverCategories(Categories, "night_pic")
         = grand_totals.pic_time
    /\ SumOverCategories(Categories, "day_sic") + SumOverCategories(Categories, "night_sic")
         = grand_totals.sic_time
    /\ SumOverCategories(Categories, "day_student")
         + SumOverCategories(Categories, "night_student") = grand_totals.student_time

\* A session in a device registered FRASCA 142 logged under type C172, then a
\* PIC flight in a C172: the type is marked is_sim, so the 1.5 h of grand.pic
\* are in no reported type.
C17_Witness ==
    /\ Len(flights) = 2
    /\ IsSimulatorRow(flights[1]) /\ flights[1].aircraft_type = C172
    /\ IsAircraftRow(flights[2]) /\ flights[2].aircraft_type = C172
    /\ grand.pic = flights[2].total /\ grand.pic > 0
    /\ type_stats[C172].is_sim
    /\ SumOfTypes(type_stats, ReportedTypes, PicBuckets) = 0

\* Time that is in grand.total and in none of pic, sic, student.
OutsideRoleBuckets == grand.total - (grand.pic + grand.sic + grand.student)

SecondCallDone == pc = "again" /\ cursor = Len(flights)

FirstSeen(k) == CHOOSE i \in 1..Len(type_order) : type_order[i] = k

\* A list of types is in descending order of a field, types equal on the
\* field in the order they were first seen.
OrderedBy(rows, field) ==
    \A i, j \in 1..Len(rows) :
        i < j =>
            \/ type_stats[rows[i]][field] > type_stats[rows[j]][field]
            \/ /\ type_stats[rows[i]][field] = type_stats[rows[j]][field]
               /\ FirstSeen(rows[i]) < FirstSeen(rows[j])

Range(seq) == {seq[i] : i \in 1..Len(seq)}

\* The types fill_caai_form could report: not marked is_sim, with time.
RealTypes == {k \in DOMAIN type_stats : ~type_stats[k].is_sim /\ type_stats[k].total > 0}

\* C21: with more than 10 real types the summary table and the instrument
\* table get 10 of them, each once, none ranked (by form_total) below a type
\* left out, and the warning is emitted; with 10 or fewer every real type has
\* a row of its own and there is no warning; fill_caai_form completes either
\* way.
C21_RowOverflow ==
    pc = "done" =>
        /\ Range(report.rows) \subseteq RealTypes
        /\ Cardinality(Range(report.rows)) = Len(report.rows)
        /\ report.instrument_rows = report.rows
        /\ Cardinality(RealTypes) > MAX_FORM_ROWS =>
              /\ report.warning
              /\ Len(report.rows) = MAX_FORM_ROWS
              /\ \A r \in Range(report.rows) : \A k \in RealTypes \ Range(report.rows) :
                    type_stats[r].form_total >= type_stats[k].form_total
        /\ Cardinality(RealTypes) <= MAX_FORM_ROWS =>
              /\ ~report.warning
              /\ Range(report.rows) = RealTypes

\* Eleven types, the last seen flown 2.0 h and an earlier one 1.0 h: the form
\* is filled with ten rows, the last seen among them, and the warning.
C21_Witness ==
    /\ pc = "done"
    /\ Cardinality(RealTypes) = MAX_FORM_ROWS + 1
    /\ report.warning
    /\ Len(report.rows) = MAX_FORM_ROWS
    /\ type_order[MAX_FORM_ROWS + 1] \in Range(report.rows)
    /\ type_order[1] \notin Range(report.rows)

\* The flights the longest solo cross-country is to be chosen from: aircraft
\* rows with solo time, cross-country, no instructor.
SoloCrossCountry ==
    {i \in 1..Len(flights) :
        /\ IsAircraftRow(flights[i])
        /\ flights[i].solo > 0
        /\ CrossCountry(flights[i])
        /\ ~Instructed(flights[i])}

\* C22: the flight written as longest solo cross-country is the one of
\* largest distance among the non-simulator, solo, cross-country flights with
\* no instructor, the first of them in the list when several share that
\* distance; none is written when there is no such flight.
C22_LongestSolo ==
    pc = "done" =>
        /\ SoloCrossCountry = {} => report.longest_solo = 0
        /\ SoloCrossCountry # {} =>
              /\ report.longest_solo \in SoloCrossCountry
              /\ \A j \in SoloCrossCountry :
                    \/ flights[report.longest_solo].distance > flights[j].distance
                    \/ /\ flights[report.longest_solo].distance = flights[j].distance
                       /\ report.longest_solo <= j

\* A 500 NM flight with solo time and an instructor, then a 400 NM solo
\* flight: the instructed flight is the one written.
C22_Witness ==
    /\ pc = "done"
    /\ Len(flights) = 2
    /\ Instructed(flights[1]) /\ flights[1].solo > 0 /\ flights[1].distance = 5000
    /\ ~Instructed(flights[2]) /\ IsAircraftRow(flights[2])
    /\ flights[2].solo > 0 /\ flights[2].distance = 4000
    /\ report.longest_solo = 1

\* C23: a row with an empty aircraft type changes no grand total, no per-type
\* accumulator and no counter, creates no accumulator entry and gets no cell,
\* in the form filler, the column writer and the analyzer; the loop goes on.
C23_BlankRowSkipped ==
    [][ (Took /\ New.aircraft_type = NoText) =>
          /\ grand' = grand
          /\ type_stats' = type_stats
          /\ type_order' = type_order
          /\ column_stats' = column_stats
          /\ sheet'[Len(sheet')] = "blank"
          /\ type_totals' = type_totals
          /\ grand_totals' = grand_totals
          /\ pc' = "categorize" ]_vars

\* A row with no aircraft type but with 1.5 h and an instructor, skipped, and
\* the aircraft row after it counted.
C23_Witness ==
    /\ Len(flights) = 2
    /\ flights[1].aircraft_type = NoText /\ flights[1].total > 0
    /\ IsAircraftRow(flights[2])
    /\ grand.total = flights[2].total /\ grand.total > 0
    /\ DOMAIN type_stats = {normalize_type(flights[2].aircraft_type)}
    /\ DOMAIN type_totals = {flights[2].aircraft_type}
    /\ grand_totals.total_flights = 1
    /\ sheet[1] = "blank"

\* C24: a flight with a non-empty aircraft type touches one per-type
\* accumulator only, the one keyed by normalize_type of its code (C172R and
\* C172K in any case give C172), and every other accumulator stays as it was;
\* normalize_type applied to its own result changes nothing.
C24_OneAccumulatorPerFlight ==
    [][ (Took /\ New.aircraft_type # NoText) =>
          /\ DOMAIN type_stats' = DOMAIN type_stats \cup {NewKey}
          /\ \A k \in DOMAIN type_stats :
                 k # NewKey => type_stats'[k] = type_stats[k]
          /\ normalize_type(NewKey) = NewKey
          /\ Upper(New.aircraft_type) \in {C172R, C172K} => NewKey = C172
          /\ IsAircraftRow(New) =>
                 type_stats'[NewKey].total =
                     Lookup(type_stats, NewKey).total + New.total ]_vars

\* A C172 flight and a C172R flight in one accumulator holding both totals.
C24_Witness ==
    /\ Len(flights) = 2
    /\ flights[1].aircraft_type = C172 /\ flights[2].aircraft_type = C172R
    /\ IsAircraftRow(flights[1]) /\ IsAircraftRow(flights[2])
    /\ DOMAIN type_stats = {C172}
    /\ type_stats[C172].total = flights[1].total + flights[2].total
    /\ flights[1].total > 0 /\ flights[2].total > 0

\* The grand total of categorize_flights that a role cell names.
BucketOfRole(role) ==
    CASE role = "Student" -> "student"
      [] role = "Safety Pilot" -> "safety_pilot_se"
      [] role = "SIC" -> "sic"
      [] role = "PIC" -> "pic"

ColumnRoles == {"Student", "Safety Pilot", "SIC", "PIC"}

\* C25: for every aircraft row the role cell written by add_caai_columns
\* names the one role total to which categorize_flights adds the row's time,
\* and after every row the per-role hours of add_caai_columns equal
\* grand.student, grand.safety_pilot_se, grand.sic and grand.pic.
C25_ColumnRoleMatchesFiller ==
    [][ Took =>
          /\ IsAircraftRow(New) =>
                /\ sheet'[Len(sheet')].role \in ColumnRoles
                /\ \A r \in ColumnRoles :
                      GrandDelta(BucketOfRole(r)) =
                          IF sheet'[Len(sheet')].role = r THEN New.total ELSE 0
          /\ \A r \in ColumnRoles :
                CounterGet(column_stats'.role_hours, r) = grand'[BucketOfRole(r)]
        ]_vars

\* A single-engine flight with SIC time and a safety-pilot remark written as
\* "Safety Pilot" after a multi-engine SIC flight, both paths agreeing.
C25_Witness ==
    /\ Len(flights) = 2
    /\ IsAircraftRow(flights[1]) /\ IsAircraftRow(flights[2])
    /\ sheet[1].role = "SIC" /\ sheet[2].role = "Safety Pilot"
    /\ flights[2].sic > 0
    /\ grand.sic = flights[1].total /\ grand.sic > 0
    /\ grand.safety_pilot_se = flights[2].total /\ grand.safety_pilot_se > 0
    /\ CounterGet(column_stats.role_hours, "SIC") = grand.sic
    /\ CounterGet(column_stats.role_hours, "Safety Pilot") = grand.safety_pilot_se

\* C26: after any logbook the analyzer's pic_time, sic_time, student_time and
\* safety_pilot_se equal the form filler's pic, sic, student and
\* safety_pilot_se, and both give the same half-credit total.
C26_PathsReconcile ==
    /\ grand_totals.pic_time = grand.pic
    /\ grand_totals.sic_time = grand.sic
    /\ grand_totals.student_time = grand.student
    /\ grand_totals.safety_pilot_se = grand.safety_pilot_se
    /\ pc = "done" => caai_total = report.caai_grand_total

\* One safety-pilot flight on a PA44 with no PIC and no SIC time logged: PIC
\* for categorize_flights, SIC for analyze_caai.
C26_Witness ==
    /\ Len(flights) = 1
    /\ flights[1] \in SafetyTwinRows
    /\ grand.pic = 1500 /\ grand.sic = 0
    /\ grand_totals.pic_time = 0 /\ grand_totals.sic_time = 1500
    /\ pc = "done"
    /\ report.caai_grand_total = 1500 /\ caai_total = 750

\* C27: for every aircraft type code, is_single_engine is false exactly when
\* get_caai_category gives a multi-engine category, E or F.
C27_EngineClassAgreesWithCategory ==
    rule_out.applied =>
        (~rule_out.single_engine <=> rule_out.category \in {"E", "F"})

\* 'PA44-180': category E by the substring test, single-engine by the
\* membership test.
C27_Witness ==
    /\ rule_out.applied
    /\ rule_in.aircraft_type = PA44_180
    /\ rule_out.category = "E"
    /\ rule_out.single_engine

\* C28: after any logbook every type's form_total equals the sum of its six
\* day and night role buckets, so no row of the summary table is printed with
\* MISMATCH, and the type's total equals its form_total plus its safety-pilot
\* time.
C28_PerTypeReconciliation ==
    /\ \A k \in DOMAIN type_stats :
          /\ type_stats[k].form_total = role_sum(type_stats[k])
          /\ type_stats[k].total =
                 type_stats[k].form_total + type_stats[k].safety_pilot
    /\ pc = "done" =>
          /\ Len(report.row_statuses) = Len(report.rows)
          /\ \A i \in 1..Len(report.row_statuses) : report.row_statuses[i] = "OK"

\* A type with an SIC night flight and a safety-pilot flight behind it, and a
\* second type in the table, both rows printed OK.
C28_Witness ==
    /\ pc = "done"
    /\ Len(flights) = 2
    /\ DOMAIN type_stats = {C172, PA44}
    /\ type_stats[PA44].night_sic > 0 /\ type_stats[PA44].day_sic > 0
    /\ type_stats[PA44].form_total = 1500
    /\ type_stats[C172].safety_pilot > 0 /\ type_stats[C172].form_total = 0
    /\ report.rows = <<PA44, C172>>
    /\ report.row_statuses = <<"OK", "OK">>

\* C29: after any logbook grand.total equals grand.form_total plus
\* grand.safety_pilot_se: the only aircraft time outside the form total is
\* safety-pilot time on single-engine aircraft, and simulator time is in
\* neither.
C29_EveryHourAccounted ==
    /\ grand.total = grand.form_total + grand.safety_pilot_se
    /\ grand.total = SumOverAircraftRows(flights, "total")

\* An SIC flight on a twin and a safety-pilot flight on a single: 3.0 h in
\* all, 1.5 h of it in the form total.
C29_Witness ==
    /\ Len(flights) = 2
    /\ grand.sic = 1500 /\ grand.safety_pilot_se = 1500
    /\ grand.form_total = 1500
    /\ grand.total = 3000

\* The normalized types that received an aircraft flight with time.
FlownTypes ==
    { normalize_type(flights[i].aircraft_type) :
        i \in { j \in 1..Len(flights) :
                  IsAircraftRow(flights[j]) /\ flights[j].total > 0 } }

\* C30: every normalized type that received an aircraft flight with positive
\* total time is among the real types of fill_caai_form, with its form total,
\* whatever simulator records share its key and wherever they stand in the
\* logbook.
C30_SimulatorNeverHidesHours ==
    /\ FlownTypes \subseteq Range(real_types(type_stats, type_order))
    /\ (pc = "done" /\ ~report.warning) => FlownTypes \subseteq Range(report.rows)

\* A PIC flight in a C172, then a session in a device registered FRASCA 142
\* logged under type C172: the report has no row at all.
C30_Witness ==
    /\ pc = "done"
    /\ Len(flights) = 2
    /\ IsAircraftRow(flights[1]) /\ flights[1].aircraft_type = C172
    /\ flights[1].total > 0
    /\ IsSimulatorRow(flights[2]) /\ flights[2].aircraft_type = C172
    /\ FlownTypes = {C172}
    /\ type_stats[C172].form_total = flights[1].total
    /\ report.rows = <<>>

====
